---- MODULE Spec2Model ----
(***************************************************************************)
(* State-machine model of the script section of frontend/src/App.vue: the  *)
(* debounced query dispatcher, the token-guarded search coordinator, the   *)
(* keyboard / mouse selection arbitration and the settings session.        *)
(*                                                                         *)
(* One action is one macrotask of the single-threaded event loop: a DOM    *)
(* event handler, a timer callback, or the continuation of an awaited      *)
(* invoke() together with the microtasks it queues (the selectedIndex      *)
(* watcher, nextTick continuations).                                       *)
(***************************************************************************)
EXTENDS Integers, Sequences, FiniteSets

\* ------------------------------------------------------------- bounds
MaxSearches == 3      \* cap on the number of performSearch calls
MaxResults == 3       \* longest result list the service returns
MaxBurst == 2         \* saturation of the burst-length history counter
MaxLoads == 1         \* get_settings calls outstanding at once
MaxSaves == 1         \* save_settings calls outstanding at once

\* ------------------------------------------------------------- values
FIXED_BG_PATH == "/bg.png"
OtherBgPath == "C:/wall.jpg"

Queries == {"", "rep"}

Catalog == <<"a.exe", "b.txt", "c.png", "d.md", "e.mp3">>

\* the lists the external search service may answer with
Responses == {SubSeq(Catalog, 1, n) : n \in 0..MaxResults}

\* the value a cleared <input type="number"> leaves in the bound field
EmptyStr == -1

MaxResultsValues == {100, 50}

DefaultSettings == [max_results |-> 100, theme_bg_image |-> FIXED_BG_PATH]

\* records the settings store may hold
StoredSettings == [max_results : MaxResultsValues \cup {0},
                   theme_bg_image : {FIXED_BG_PATH, OtherBgPath}]

VARIABLES
  query,                \* ref<string>
  results,              \* ref<SearchResult[]>, as the sequence of item ids
  selectedIndex,        \* ref<number>
  isLoading,            \* ref<boolean>
  searchTimeout,        \* timer handle, 0 for null
  scrollTimeout,        \* timer handle, 0 for null
  latestSearchId,       \* module-level counter
  isKeyboardScroll,
  isMouseScrolling,
  isKeyboardSelection,
  showSettings,
  settings,
  searchTimers,         \* handles of the active debounce timers
  scrollTimers,         \* handles of the active scroll-suppression timers
  inflight,             \* currentSearchId of each suspended performSearch call
  loads,                \* number of suspended loadSettings calls
  saves,                \* records passed to outstanding save_settings calls
  stored,               \* record held by the external settings store
  lastIssued,           \* history: argument and outcome of the newest search
  burst,                \* history: handleInput calls of the current burst
  ev,                   \* history: what the last event did ("arrow", "hide", ...)
  executed,             \* execute_item calls made by the last event
  scrolled,             \* rows the last event asked scrollIntoView for
  snap,                 \* history: settings as the last get_settings left them
  reads,                \* per suspended loadSettings call: the record the
                        \* store held when get_settings was invoked
  superseded            \* history: Escape left the pending debounce timer behind

vars == <<query, results, selectedIndex, isLoading, searchTimeout,
          scrollTimeout, latestSearchId, isKeyboardScroll, isMouseScrolling,
          isKeyboardSelection, showSettings, settings, searchTimers,
          scrollTimers, inflight, loads, saves, stored, lastIssued,
          burst, ev, executed, scrolled, snap, reads, superseded>>

selVars == <<selectedIndex, isKeyboardScroll, isKeyboardSelection>>
scrollVars == <<scrollTimeout, isMouseScrolling>>
searchVars == <<latestSearchId, inflight, lastIssued>>
settingsVars == <<showSettings, settings, loads, saves, stored, reads>>
timers == <<searchTimers, scrollTimers>>
histVars == <<burst, ev>>

\* ------------------------------------------------------------- helpers

\* JavaScript's % : the remainder takes the sign of the dividend
JsMod(a, b) == IF a >= 0 THEN a % b ELSE 0 - ((0 - a) % b)

\* JavaScript's Number() on the values the max_results field can hold
ToNumber(v) == IF v = EmptyStr THEN 0 ELSE v

\* { ...a, ...b }
Merge(a, b) ==
  [k \in DOMAIN a \cup DOMAIN b |-> IF k \in DOMAIN b THEN b[k] ELSE a[k]]

Min(a, b) == IF a <= b THEN a ELSE b

RemoveAt(s, i) == SubSeq(s, 1, i - 1) \o SubSeq(s, i + 1, Len(s))

\* setTimeout: the handle of the new timer, distinct from the active ones
FreshTimerId(active) ==
  CHOOSE n \in 1..(Cardinality(active) + 1) :
    n \notin active /\ \A m \in 1..(n - 1) : m \in active

\* faulty variant of ClearTimeout: the pending timer is not cancelled
ClearTimeoutNoop(T, h) == T

\* clearTimeout(h): no effect when h is null or has already fired
ClearTimeout(T, h) == T \ {h}

\* the result list is rendered (and resultListRef set) in the main view only
MainView == ~showSettings

\* the event calls neither execute_item nor scrollIntoView
NoCalls == executed' = <<>> /\ scrolled' = <<>>

\* ------------------------------------------------------------- watcher

\* resultListRef.value.children.length once the list is rendered: the rows,
\* or the one empty-state block shown for a non-empty query that found nothing
Children(rows, q, loading) ==
  IF Len(rows) > 0 THEN Len(rows)
  ELSE IF q # "" /\ ~loading THEN 1 ELSE 0

\* watch(selectedIndex, ...): runs in the flush that follows a handler which
\* changed selectedIndex from old to new; gate is isKeyboardScroll as the
\* handler left it and n the number of rows rendered by then.  TRUE when the
\* callback reaches scrollIntoView.
WatchScrolls(old, new, gate, n) ==
  new # old /\ gate /\ ~showSettings /\ new < n

\* value of isKeyboardScroll after that flush
WatchGate(old, new, gate, n) ==
  IF WatchScrolls(old, new, gate, n) THEN FALSE ELSE gate

\* ------------------------------------------------------------- performSearch

\* faulty variant of NextSearchId: the counter is read without the increment
NextSearchIdStuck == latestSearchId

\* ++latestSearchId
NextSearchId == latestSearchId + 1

\* the synchronous part of performSearch(q), up to the await
PerformSearch(q) ==
  /\ latestSearchId' = NextSearchId
  /\ isLoading' = TRUE
  /\ inflight' = inflight \cup {NextSearchId}
  /\ lastIssued' = [q |-> q, st |-> "pending", res |-> <<>>,
                    dropped |-> FALSE, late |-> FALSE]

\* faulty variant of StaleOnResponse: every response is applied
StaleOnResponseNever(currentSearchId) == FALSE

\* if (currentSearchId !== latestSearchId) return;
StaleOnResponse(currentSearchId) == currentSearchId # latestSearchId

\* faulty variant of CurrentOnFailure: a failure never empties the list
CurrentOnFailureNever(currentSearchId) == FALSE

\* catch: if (currentSearchId === latestSearchId)
CurrentOnFailure(currentSearchId) == currentSearchId = latestSearchId

\* faulty variant of CurrentOnFinally: no completion clears isLoading
CurrentOnFinallyNever(currentSearchId) == FALSE

\* faulty variant of CurrentOnFinally: every completion clears isLoading
CurrentOnFinallyAlways(currentSearchId) == TRUE

\* finally: if (currentSearchId === latestSearchId)
CurrentOnFinally(currentSearchId) == currentSearchId = latestSearchId

\* faulty variant of AcceptedIndex: the selection is kept
AcceptedIndexKept == selectedIndex

\* selectedIndex.value = 0 after an accepted response
AcceptedIndex == 0

\* history of the newest request, kept by the environment
\* (dropped: an older call completed since; late: it did so after the newest
\* had been processed, with another outcome)
Outcome(r, st, res) ==
  IF r = latestSearchId
  THEN [lastIssued EXCEPT !.st = st, !.res = res]
  ELSE [lastIssued EXCEPT
          !.dropped = TRUE,
          !.late = @ \/ (lastIssued.st = "ok" /\ res # lastIssued.res)]

\* invoke("search") resolves with res for the suspended call r
SearchResolve(r, res) ==
  /\ inflight' = inflight \ {r}
  /\ lastIssued' = Outcome(r, "ok", res)
  /\ IF StaleOnResponse(r)
     THEN UNCHANGED <<results, selectedIndex, isKeyboardScroll>> /\ NoCalls
     ELSE LET loading == IF CurrentOnFinally(r) THEN FALSE ELSE isLoading
              n == Children(res, query, loading)
          IN  /\ results' = res
              /\ selectedIndex' = AcceptedIndex
              /\ isKeyboardScroll' =
                   WatchGate(selectedIndex, AcceptedIndex, isKeyboardScroll, n)
              /\ executed' = <<>>
              /\ scrolled' =
                   IF WatchScrolls(selectedIndex, AcceptedIndex, isKeyboardScroll, n)
                   THEN <<AcceptedIndex>> ELSE <<>>
  /\ UNCHANGED <<snap, superseded>>
  /\ isLoading' = IF CurrentOnFinally(r) THEN FALSE ELSE isLoading
  /\ UNCHANGED <<query, searchTimeout, scrollVars, latestSearchId,
                 isKeyboardSelection, settingsVars, timers, burst>>
  /\ ev' = "none"

\* invoke("search") rejects for the suspended call r
SearchReject(r) ==
  /\ NoCalls
  /\ UNCHANGED <<snap, superseded>>
  /\ inflight' = inflight \ {r}
  /\ lastIssued' = Outcome(r, "err", <<>>)
  /\ results' = IF CurrentOnFailure(r) THEN <<>> ELSE results
  /\ isLoading' = IF CurrentOnFinally(r) THEN FALSE ELSE isLoading
  /\ UNCHANGED <<query, selVars, searchTimeout, scrollVars, latestSearchId,
                 settingsVars, timers, burst>>
  /\ ev' = "none"

\* ------------------------------------------------------------- debounce

\* handleInput, after v-model has stored the new text q in query
HandleInput(q) ==
  /\ NoCalls
  /\ superseded' = FALSE
  /\ UNCHANGED snap
  /\ MainView
  /\ query' = q
  /\ isLoading' = TRUE
  /\ LET kept == ClearTimeout(searchTimers, searchTimeout)
     IN  /\ searchTimeout' = FreshTimerId(kept)
         /\ searchTimers' = kept \cup {FreshTimerId(kept)}
  /\ burst' = IF searchTimers = {} THEN 1 ELSE Min(burst + 1, MaxBurst)
  /\ ev' = "none"
  /\ UNCHANGED <<results, selVars, scrollVars, scrollTimers, searchVars,
                 settingsVars>>

\* the debounce timer fires: performSearch(query.value)
SearchTimerFire(t) ==
  /\ NoCalls
  /\ superseded' = FALSE
  /\ UNCHANGED snap
  /\ t \in searchTimers
  /\ latestSearchId < MaxSearches
  /\ searchTimers' = searchTimers \ {t}
  /\ ev' = "none"
  /\ PerformSearch(query)
  /\ UNCHANGED <<query, results, selVars, searchTimeout, scrollVars,
                 scrollTimers, settingsVars, burst>>

\* ------------------------------------------------------------- keyboard

\* (selectedIndex.value + 1) % results.value.length
ArrowDownIndex(i, n) == JsMod(i + 1, n)

\* faulty variant of ArrowUpIndex: the length is not added before the %
ArrowUpIndexNoWrap(i, n) == JsMod(i - 1, n)

\* (selectedIndex.value - 1 + results.value.length) % results.value.length
ArrowUpIndex(i, n) == JsMod(i - 1 + n, n)

\* faulty variant of EscapeClears: Escape always takes the first branch
EscapeClearsAlways == TRUE

\* if (query.value.length > 0)
EscapeClears == query # ""

\* faulty variant of NoRows: keys are also dropped while the list scrolls
NoRowsOrScrolling == Len(results) = 0 \/ isMouseScrolling

\* if (results.value.length === 0) return;
NoRows == Len(results) = 0

\* handleKeyDown, e.key === "Escape", first stage: clear the text and search ""
EscapeClear ==
  /\ NoCalls
  /\ superseded' = (searchTimers # {})
  /\ UNCHANGED snap
  /\ MainView
  /\ EscapeClears
  /\ latestSearchId < MaxSearches
  /\ query' = ""
  /\ PerformSearch("")
  /\ UNCHANGED <<results, selVars, searchTimeout, scrollVars, settingsVars,
                 timers, burst>>
  /\ ev' = "none"

\* handleKeyDown, e.key === "Escape", second stage: hideWindow()
EscapeHide ==
  /\ NoCalls
  /\ UNCHANGED <<snap, superseded>>
  /\ MainView
  /\ ~EscapeClears
  /\ ev' = "hide"
  /\ UNCHANGED <<query, results, selVars, isLoading, searchTimeout, scrollVars,
                 searchVars, settingsVars, timers, burst>>

\* the part of handleKeyDown after the Escape branch, for a key that moves
\* the selection to next(selectedIndex, n)
KeyNavigate(next, kind) ==
  /\ MainView
  /\ IF NoRows
     THEN UNCHANGED selVars /\ ev' = "none" /\ scrolled' = <<>>
     ELSE /\ ev' = kind
          /\ selectedIndex' = next
          /\ isKeyboardSelection' = TRUE
          /\ isKeyboardScroll' = WatchGate(selectedIndex, next, TRUE, Len(results))
          /\ scrolled' = IF WatchScrolls(selectedIndex, next, TRUE, Len(results))
                         THEN <<next>> ELSE <<>>
  /\ UNCHANGED <<snap, superseded>>
  /\ UNCHANGED <<query, results, isLoading, searchTimeout, scrollVars,
                 searchVars, settingsVars, timers, burst>>

\* handleKeyDown, e.key === "ArrowDown"
KeyArrowDown ==
  /\ KeyNavigate(ArrowDownIndex(selectedIndex, Len(results)), "arrow")
  /\ executed' = <<>>

\* handleKeyDown, e.key === "ArrowUp"
KeyArrowUp ==
  /\ KeyNavigate(ArrowUpIndex(selectedIndex, Len(results)), "arrow")
  /\ executed' = <<>>

\* faulty variant of HandleExecute: the query text is not passed
HandleExecuteNoQuery(item) == <<[id |-> item, query |-> ""]>>

\* handleExecute(item) up to the await: invoke("execute_item", ...); the
\* completion of the call changes nothing
HandleExecute(item) == <<[id |-> item, query |-> query]>>

\* handleKeyDown, e.key === "Enter": the two gates are raised and the item
\* at selectedIndex, when there is one, is executed
KeyEnter ==
  /\ KeyNavigate(selectedIndex, "none")
  /\ executed' = IF NoRows \/ selectedIndex \notin 0..(Len(results) - 1)
                 THEN <<>>
                 ELSE HandleExecute(results[selectedIndex + 1])

\* handleKeyDown for any other key: the two gates are raised, nothing moves
KeyOther ==
  /\ KeyNavigate(selectedIndex, "none")
  /\ executed' = <<>>

\* @click on rendered row index: handleExecute(item)
ClickRow(index) ==
  /\ MainView
  /\ index \in 0..(Len(results) - 1)
  /\ executed' = HandleExecute(results[index + 1])
  /\ scrolled' = <<>>
  /\ ev' = "none"
  /\ UNCHANGED <<query, results, selVars, isLoading, searchTimeout, scrollVars,
                 searchVars, settingsVars, timers, burst, snap, superseded>>

\* ------------------------------------------------------------- mouse

\* faulty variant of MouseSuppressed: the gate is never closed
MouseSuppressedNever == FALSE

\* if (isMouseScrolling.value) return;
MouseSuppressed == isMouseScrolling

\* handleListScroll
HandleListScroll ==
  /\ NoCalls
  /\ UNCHANGED <<snap, superseded>>
  /\ MainView
  /\ isMouseScrolling' = TRUE
  /\ LET kept == ClearTimeout(scrollTimers, scrollTimeout)
     IN  /\ scrollTimeout' = FreshTimerId(kept)
         /\ scrollTimers' = kept \cup {FreshTimerId(kept)}
  /\ UNCHANGED <<query, results, selVars, isLoading, searchTimeout,
                 searchTimers, searchVars, settingsVars, burst>>
  /\ ev' = "none"

\* the scroll-suppression timer fires
ScrollTimerFire(t) ==
  /\ NoCalls
  /\ UNCHANGED <<snap, superseded>>
  /\ t \in scrollTimers
  /\ scrollTimers' = scrollTimers \ {t}
  /\ isMouseScrolling' = FALSE
  /\ UNCHANGED <<query, results, selVars, isLoading, searchTimeout,
                 scrollTimeout, searchTimers, searchVars, settingsVars,
                 burst>>
  /\ ev' = "none"

\* handleMouseMove(index, e) over rendered row index; moved is
\* e.movementX !== 0 || e.movementY !== 0
HandleMouseMove(index, moved) ==
  /\ MainView
  /\ index \in 0..(Len(results) - 1)
  /\ ev' = IF ~moved THEN "none"
           ELSE IF MouseSuppressed THEN "hoverIgnored" ELSE "hoverApplied"
  /\ IF MouseSuppressed \/ ~moved
     THEN UNCHANGED selVars /\ scrolled' = <<>>
     ELSE /\ selectedIndex' = index
          /\ isKeyboardSelection' = FALSE
          /\ isKeyboardScroll' =
               WatchGate(selectedIndex, index, isKeyboardScroll, Len(results))
          /\ scrolled' =
               IF WatchScrolls(selectedIndex, index, isKeyboardScroll, Len(results))
               THEN <<index>> ELSE <<>>
  /\ executed' = <<>>
  /\ UNCHANGED <<snap, superseded>>
  /\ UNCHANGED <<query, results, isLoading, searchTimeout, scrollVars,
                 searchVars, settingsVars, timers, burst>>

\* the "window-focused" push event: the input is focused and selected
WindowFocused ==
  /\ NoCalls
  /\ UNCHANGED <<snap, superseded>>
  /\ ev' = "none"
  /\ UNCHANGED <<query, results, selVars, isLoading, searchTimeout, scrollVars,
                 searchVars, settingsVars, timers, burst>>

\* ------------------------------------------------------------- settings

\* faulty variant of Pin: the persisted path is honoured
PinNone(s) == s

\* settings.value.theme_bg_image = FIXED_BG_PATH
Pin(s) == [s EXCEPT !.theme_bg_image = FIXED_BG_PATH]

\* toggleSettings with the panel closed: loadSettings(), then open
OpenSettings ==
  /\ NoCalls
  /\ snap' = <<>>
  /\ UNCHANGED superseded
  /\ MainView
  /\ loads < MaxLoads
  /\ loads' = loads + 1
  /\ reads' = Append(reads, stored)
  /\ showSettings' = TRUE
  /\ UNCHANGED <<query, results, selVars, isLoading, searchTimeout, scrollVars,
                 searchVars, settings, saves, stored, timers, burst>>
  /\ ev' = "none"

\* toggleSettings with the panel open (close button, cancel button)
CancelSettings ==
  /\ NoCalls
  /\ UNCHANGED <<snap, superseded>>
  /\ showSettings
  /\ showSettings' = FALSE
  /\ UNCHANGED reads
  /\ UNCHANGED <<query, results, selVars, isLoading, searchTimeout, scrollVars,
                 searchVars, settings, loads, saves, stored, timers,
                 burst>>
  /\ ev' = "none"

\* loadSettings: invoke("get_settings") of the suspended call i resolves
\* with saved, the record the store held at some moment of the call
LoadReturns(i, saved) ==
  /\ NoCalls
  /\ UNCHANGED superseded
  /\ loads > 0
  /\ i \in 1..Len(reads)
  /\ saved \in {reads[i], stored}
  /\ loads' = loads - 1
  /\ reads' = RemoveAt(reads, i)
  /\ settings' = Pin(Merge(settings, saved))
  /\ snap' = <<settings'>>
  /\ UNCHANGED <<query, results, selVars, isLoading, searchTimeout, scrollVars,
                 searchVars, showSettings, saves, stored, timers,
                 burst>>
  /\ ev' = "none"

\* loadSettings: invoke("get_settings") resolves
LoadResolve ==
  \E i \in 1..Len(reads), saved \in StoredSettings : LoadReturns(i, saved)

\* loadSettings: invoke("get_settings") rejects
LoadReject ==
  /\ NoCalls
  /\ UNCHANGED <<snap, superseded>>
  /\ loads > 0
  /\ loads' = loads - 1
  /\ \E i \in 1..Len(reads) : reads' = RemoveAt(reads, i)
  /\ UNCHANGED <<query, results, selVars, isLoading, searchTimeout, scrollVars,
                 searchVars, showSettings, settings, saves, stored, timers, burst>>
  /\ ev' = "none"

\* the v-model binding of the max_results field stores v
EditSettings(v) ==
  /\ NoCalls
  /\ UNCHANGED <<snap, superseded>>
  /\ showSettings
  /\ settings' = [settings EXCEPT !.max_results = v]
  /\ UNCHANGED <<query, results, selVars, isLoading, searchTimeout, scrollVars,
                 searchVars, showSettings, loads, saves, stored, reads, timers,
                 burst>>
  /\ ev' = "edit"

\* saveSettings up to the await: coerce, pin, invoke("save_settings")
SaveSettings ==
  /\ NoCalls
  /\ UNCHANGED <<snap, superseded>>
  /\ showSettings
  /\ Len(saves) < MaxSaves
  /\ settings' = Pin([settings EXCEPT !.max_results = ToNumber(@)])
  /\ saves' = Append(saves, settings')
  /\ UNCHANGED reads
  /\ UNCHANGED <<query, results, selVars, isLoading, searchTimeout, scrollVars,
                 searchVars, showSettings, loads, stored, timers,
                 burst>>
  /\ ev' = "none"

\* saveSettings after the await: close the panel, performSearch(query.value)
SaveResolve(i) ==
  /\ NoCalls
  /\ superseded' = FALSE
  /\ UNCHANGED snap
  /\ i \in 1..Len(saves)
  /\ latestSearchId < MaxSearches
  /\ stored' = saves[i]
  /\ saves' = RemoveAt(saves, i)
  /\ showSettings' = FALSE
  /\ UNCHANGED reads
  /\ PerformSearch(query)
  /\ UNCHANGED <<query, results, selVars, searchTimeout, scrollVars, settings,
                 loads, timers, burst>>
  /\ ev' = "none"

\* invoke("save_settings") rejects
SaveReject(i) ==
  /\ NoCalls
  /\ UNCHANGED <<snap, superseded>>
  /\ i \in 1..Len(saves)
  /\ saves' = RemoveAt(saves, i)
  /\ UNCHANGED reads
  /\ UNCHANGED <<query, results, selVars, isLoading, searchTimeout, scrollVars,
                 searchVars, showSettings, settings, loads, stored, timers, burst>>
  /\ ev' = "none"

\* ------------------------------------------------------------- specification

\* the refs' initial values; onMounted has called loadSettings()
Init ==
  /\ query = ""
  /\ results = <<>>
  /\ selectedIndex = 0
  /\ isLoading = FALSE
  /\ searchTimeout = 0
  /\ scrollTimeout = 0
  /\ latestSearchId = 0
  /\ isKeyboardScroll = FALSE
  /\ isMouseScrolling = FALSE
  /\ isKeyboardSelection = FALSE
  /\ showSettings = FALSE
  /\ settings = DefaultSettings
  /\ searchTimers = {}
  /\ scrollTimers = {}
  /\ inflight = {}
  /\ loads = 1
  /\ saves = <<>>
  /\ stored \in StoredSettings
  /\ reads = <<stored>>
  /\ lastIssued = [q |-> "", st |-> "none", res |-> <<>>,
                   dropped |-> FALSE, late |-> FALSE]
  /\ ev = "none"
  /\ burst = 0
  /\ executed = <<>>
  /\ scrolled = <<>>
  /\ snap = <<>>
  /\ superseded = FALSE

\* typing, Escape, the debounce timer and the search service
SearchNext ==
  \/ \E q \in Queries : HandleInput(q)
  \/ \E t \in searchTimers : SearchTimerFire(t)
  \/ \E r \in inflight, res \in Responses : SearchResolve(r, res)
  \/ \E r \in inflight : SearchReject(r)
  \/ EscapeClear
  \/ EscapeHide
  \/ WindowFocused

\* keyboard navigation, pointer motion and scrolling over the result list
SelectNext ==
  \/ KeyArrowDown
  \/ KeyArrowUp
  \/ KeyOther
  \/ HandleListScroll
  \/ \E t \in scrollTimers : ScrollTimerFire(t)
  \/ \E index \in 0..(MaxResults - 1), moved \in BOOLEAN :
       HandleMouseMove(index, moved)

\* the settings panel and the settings store
PanelNext ==
  \/ OpenSettings
  \/ CancelSettings
  \/ LoadResolve
  \/ LoadReject
  \/ SaveSettings
  \/ \E i \in 1..MaxSaves : SaveResolve(i)
  \/ \E i \in 1..MaxSaves : SaveReject(i)

EditNext == \E v \in MaxResultsValues \cup {EmptyStr} : EditSettings(v)

\* typing alone
InputNext == \E q \in Queries : HandleInput(q)

\* typing and the debounce timer alone
TypeNext ==
  \/ \E q \in Queries : HandleInput(q)
  \/ \E t \in searchTimers : SearchTimerFire(t)

\* the search service answers a request with a list
AnswerNext == \E r \in inflight, res \in Responses : SearchResolve(r, res)

\* choosing a row with the keyboard or the pointer and executing it
ExecNext ==
  \/ KeyArrowDown
  \/ KeyArrowUp
  \/ KeyEnter
  \/ \E index \in 0..(MaxResults - 1) : ClickRow(index)
  \/ \E index \in 0..(MaxResults - 1) : HandleMouseMove(index, TRUE)

Next ==
  \/ SearchNext \/ SelectNext \/ PanelNext \/ EditNext
  \/ InputNext \/ TypeNext \/ AnswerNext \/ ExecNext

\* every handler, with any store contents (the largest state space)
Spec == Init /\ [][Next]_vars

\* The query pipeline with the settings panel: the user leaves the result
\* list alone and edits no settings field, and the store holds the defaults.
MainInit == Init /\ stored = DefaultSettings
SpecSearch == MainInit /\ [][SearchNext \/ PanelNext]_vars

\* The query pipeline with the result list: the user types, navigates, hovers
\* and scrolls while the panel stays closed.
SpecList == MainInit /\ [][SearchNext \/ SelectNext]_vars

\* Keyboard against pointer over the lists that typed searches bring back:
\* no Escape press, no failing search.
SpecArbitration == MainInit /\ [][TypeNext \/ AnswerNext \/ SelectNext]_vars

\* The query pipeline with execution: the user types, moves the selection
\* and runs the selected item with Enter or a click.
SpecExec == MainInit /\ [][SearchNext \/ ExecNext]_vars

\* The settings session over any store contents: the user types, opens the
\* panel, edits the max_results field, cancels or saves; the debounce timer
\* has not fired and the search service has not answered yet.
SpecSettings == Init /\ [][InputNext \/ PanelNext \/ EditNext]_vars

\* ------------------------------------------------------------- progress

\* the pending debounce timer fires
TimerFires == \E t \in searchTimers : SearchTimerFire(t)

\* an outstanding invoke("search") completes, with a list or with a failure
SearchCompletes ==
  \E r \in inflight :
    \/ \E res \in Responses : SearchResolve(r, res)
    \/ SearchReject(r)

\* a text change, while the cap on searches leaves room for the search its
\* timer will issue
LiveInput(q) == latestSearchId < MaxSearches /\ HandleInput(q)

\* an Escape press that clears the text, while the cap leaves room for its
\* search and for the search of the timer it leaves pending
LiveEscape ==
  /\ latestSearchId + Cardinality(searchTimers) < MaxSearches
  /\ EscapeClear

LiveNext ==
  \/ \E q \in Queries : LiveInput(q)
  \/ LiveEscape
  \/ EscapeHide
  \/ TimerFires
  \/ SearchCompletes

\* The query pipeline under the event loop's guarantees: a timer that is due
\* fires, and an outstanding search call completes.
SpecLive ==
  /\ MainInit
  /\ [][LiveNext]_vars
  /\ WF_vars(TimerFires)
  /\ WF_vars(SearchCompletes)

\* ------------------------------------------------------------- properties

\* a step in which the suspended performSearch call r resumes and finishes
Completes(r) == r \in inflight /\ r \notin inflight'

\* a step in which performSearch is called
IssuesSearch ==
  \/ \E t \in searchTimers : SearchTimerFire(t)
  \/ EscapeClear
  \/ \E i \in 1..Len(saves) : SaveResolve(i)

\* C1: once the response to the most recently issued request has been
\* processed, results is that response, and stays so while responses to
\* older requests arrive afterwards.
C1_LatestWins == lastIssued.st = "ok" => results = lastIssued.res

\* C1 witness: the newest response was processed and an older request then
\* resolved with a different list.
C1_Witness ==
  /\ lastIssued.st = "ok"
  /\ lastIssued.late
  /\ results = lastIssued.res
  /\ Len(results) > 0

\* C2: a completion, success or failure, of a call whose token differs from
\* latestSearchId changes none of results, selectedIndex and isLoading.
C2_StaleIgnored ==
  [][\A r \in inflight :
       (Completes(r) /\ r # latestSearchId)
         => UNCHANGED <<results, selectedIndex, isLoading>>]_vars

\* C2 witness: an older call completed while the newest is still outstanding
\* and the spinner is still shown.
C2_Witness ==
  /\ lastIssued.dropped
  /\ lastIssued.st = "pending"
  /\ latestSearchId \in inflight
  /\ isLoading

\* C3: every performSearch call (debounce timer, Escape, saveSettings)
\* increments latestSearchId exactly once and owns the new value, a token no
\* outstanding request holds; no other step changes latestSearchId; the
\* tokens of outstanding requests never exceed the counter.
C3_TokenIncrement ==
  /\ [](\A r \in inflight : 1 <= r /\ r <= latestSearchId)
  /\ [][IF IssuesSearch
        THEN /\ latestSearchId' = latestSearchId + 1
             /\ latestSearchId' \notin inflight
             /\ inflight' = inflight \cup {latestSearchId'}
        ELSE /\ latestSearchId' = latestSearchId
             /\ inflight' \subseteq inflight]_vars

\* C3 witness: two requests are outstanding, with different tokens.
C3_Witness ==
  /\ latestSearchId = 2
  /\ inflight = {1, 2}

\* C4: while handleInput calls keep arriving before the timer fires, no
\* search is issued and exactly one timer, the last one set, is pending; when
\* it fires exactly one performSearch call is made, with the value of query
\* at that moment, and no debounce timer is left.
C4_DebounceCoalesces ==
  /\ [](Cardinality(searchTimers) <= 1)
  /\ [][(\E q \in Queries : HandleInput(q))
          => /\ latestSearchId' = latestSearchId
             /\ inflight' = inflight
             /\ searchTimers' = {searchTimeout'}]_vars
  /\ [][(\E t \in searchTimers : SearchTimerFire(t))
          => /\ latestSearchId' = latestSearchId + 1
             /\ inflight' = inflight \cup {latestSearchId'}
             /\ lastIssued'.q = query
             /\ query' = query
             /\ searchTimers' = {}]_vars

\* C4 witness: a burst of two or more inputs has ended in a single search,
\* for the text typed last.
C4_Witness ==
  /\ burst >= 2
  /\ searchTimers = {}
  /\ latestSearchId = 1
  /\ lastIssued.q = "rep"
  /\ query = "rep"

\* C5: whenever results is non-empty, 0 <= selectedIndex < results.length.
C5_SelectionInRange ==
  Len(results) > 0 => (0 <= selectedIndex /\ selectedIndex < Len(results))

\* C5 witness: the last row is selected in a list that replaced an earlier one.
C5_Witness ==
  /\ Len(results) >= 2
  /\ selectedIndex = Len(results) - 1
  /\ latestSearchId >= 2
  /\ lastIssued.st = "ok"

\* C6 as claimed: every accepted completion, a current-token failure that
\* empties the list included, leaves selectedIndex equal to 0.
C6_ResetOnEveryReplacement ==
  [][\A r \in inflight :
       (Completes(r) /\ r = latestSearchId) => selectedIndex' = 0]_vars

\* C6: every accepted successful response replaces results and leaves
\* selectedIndex equal to 0 whatever it was; a current-token failure empties
\* results and leaves selectedIndex as it was.
C6_SelectionReset ==
  [][\A r \in inflight :
       (Completes(r) /\ r = latestSearchId)
         => IF lastIssued'.st = "ok"
            THEN results' = lastIssued'.res /\ selectedIndex' = 0
            ELSE results' = <<>> /\ selectedIndex' = selectedIndex]_vars

\* C6 witness: the newest request failed while a row other than the first
\* was selected; the list is empty and the index is still that row's.
C6_Witness ==
  /\ lastIssued.st = "err"
  /\ results = <<>>
  /\ selectedIndex > 0

\* the state of the component, without the history variables
progVars == <<query, results, selectedIndex, isLoading, searchTimeout,
              scrollTimeout, latestSearchId, isKeyboardScroll,
              isMouseScrolling, isKeyboardSelection, showSettings, settings,
              searchTimers, scrollTimers, inflight, loads, saves, stored>>

\* k ArrowDown presses from row i of n rows
RECURSIVE PressDown(_, _, _)
PressDown(i, n, k) ==
  IF k = 0 THEN i ELSE PressDown(ArrowDownIndex(i, n), n, k - 1)

\* k ArrowUp presses from row i of n rows
RECURSIVE PressUp(_, _, _)
PressUp(i, n, k) ==
  IF k = 0 THEN i ELSE PressUp(ArrowUpIndex(i, n), n, k - 1)

\* C7: with n >= 1 rows, n ArrowDown presses and n ArrowUp presses each lead
\* back to the selected row and each key undoes the other; a press moves one
\* row, from the last row to the first and from the first to the last; with
\* no rows the keys change nothing.
C7_CyclicNavigation ==
  /\ [](Len(results) >= 1 =>
          LET n == Len(results)
              i == selectedIndex
          IN  /\ PressDown(i, n, n) = i
              /\ PressUp(i, n, n) = i
              /\ ArrowUpIndex(ArrowDownIndex(i, n), n) = i
              /\ ArrowDownIndex(ArrowUpIndex(i, n), n) = i)
  /\ [][(KeyArrowDown /\ Len(results) >= 1)
          => selectedIndex' = IF selectedIndex = Len(results) - 1
                              THEN 0 ELSE selectedIndex + 1]_vars
  /\ [][(KeyArrowUp /\ Len(results) >= 1)
          => selectedIndex' = IF selectedIndex = 0
                              THEN Len(results) - 1 ELSE selectedIndex - 1]_vars
  /\ [][((KeyArrowDown \/ KeyArrowUp) /\ Len(results) = 0)
          => UNCHANGED progVars]_vars

\* C7 witness: an arrow key has just moved the selection to the first of at
\* least two rows and the watcher has scrolled to it.
C7_Witness ==
  /\ ev = "arrow"
  /\ Len(results) >= 2
  /\ selectedIndex = 0
  /\ ~isKeyboardScroll

\* C8: isMouseScrolling is true exactly while a scroll timer is pending, a
\* scroll event leaves the timer it sets as the only one, and a mouse move
\* with non-zero delta over row i leaves selectedIndex alone while that timer
\* is pending and sets it to i otherwise.
C8_MouseSuppression ==
  /\ [](isMouseScrolling <=> scrollTimers # {})
  /\ [][HandleListScroll
          => scrollTimers' = {scrollTimeout'} /\ isMouseScrolling']_vars
  /\ [][\A i \in 0..(Len(results) - 1) :
          HandleMouseMove(i, TRUE)
            => selectedIndex' = IF scrollTimers # {} THEN selectedIndex ELSE i]_vars

\* C8 witness: a moving pointer over the list was ignored while the scroll
\* timer was pending.
C8_Witness ==
  /\ ev = "hoverIgnored"
  /\ scrollTimers # {}
  /\ Len(results) >= 2

\* C9: on a non-empty list ArrowDown and ArrowUp move selectedIndex by the
\* modular step in the handler itself, whatever isMouseScrolling is, and a
\* mouse move that arrives while isMouseScrolling is true changes neither
\* selectedIndex nor isKeyboardSelection.
C9_KeyboardWins ==
  /\ [][\A b \in BOOLEAN :
          (KeyArrowDown /\ isMouseScrolling = b /\ Len(results) >= 1)
            => /\ selectedIndex' = (selectedIndex + 1) % Len(results)
               /\ isKeyboardSelection']_vars
  /\ [][\A b \in BOOLEAN :
          (KeyArrowUp /\ isMouseScrolling = b /\ Len(results) >= 1)
            => /\ selectedIndex' = (selectedIndex - 1) % Len(results)
               /\ isKeyboardSelection']_vars
  /\ [][\A i \in 0..(Len(results) - 1), moved \in BOOLEAN :
          (HandleMouseMove(i, moved) /\ isMouseScrolling)
            => UNCHANGED <<selectedIndex, isKeyboardSelection>>]_vars

\* C9 witness: an arrow key has just moved the selection while
\* isMouseScrolling was true.
C9_Witness ==
  /\ ev = "arrow"
  /\ isMouseScrolling
  /\ Len(results) >= 2
  /\ selectedIndex = 1
  /\ isKeyboardSelection

\* C10: Escape with a non-empty query empties query and issues one search,
\* for the empty string, under a fresh token, without hiding the window;
\* Escape with an empty query hides the window and changes none of query,
\* results, selectedIndex and latestSearchId.
C10_EscapeTwoStage ==
  [][(EscapeClear \/ EscapeHide)
       => IF query # ""
          THEN /\ query' = ""
               /\ latestSearchId' = latestSearchId + 1
               /\ inflight' = inflight \cup {latestSearchId'}
               /\ lastIssued'.q = ""
               /\ ev' # "hide"
          ELSE /\ ev' = "hide"
               /\ UNCHANGED <<query, results, selectedIndex, latestSearchId,
                              inflight>>]_vars

\* C10 witness: Escape has just asked to hide the window; the text is empty,
\* a search for "" is outstanding and the debounce timer of the text that
\* was cleared is still pending.
C10_Witness ==
  /\ ev = "hide"
  /\ query = ""
  /\ lastIssued.q = ""
  /\ lastIssued.st = "pending"
  /\ searchTimers # {}

\* C11: whatever the store returns for theme_bg_image, the in-memory
\* settings.theme_bg_image is FIXED_BG_PATH in every reachable state, and so
\* is the field of every record passed to save_settings.
C11_SettingsPinning ==
  /\ settings.theme_bg_image = FIXED_BG_PATH
  /\ \A i \in 1..Len(saves) : saves[i].theme_bg_image = FIXED_BG_PATH

\* C11 witness: a load has returned a record holding another path, the draft
\* was edited and a save_settings call is outstanding.
C11_Witness ==
  /\ stored.theme_bg_image = OtherBgPath
  /\ snap # <<>>
  /\ loads = 0
  /\ saves # <<>>
  /\ settings.max_results = 50

\* C12: an Enter press on a non-empty list calls execute_item exactly once,
\* with the id of results[selectedIndex] and the current query, and changes
\* neither selectedIndex nor results; on an empty list it calls nothing.  With
\* results [a.exe, b.txt] for "rep", on the row reached from row 0 by Down
\* then Up, Enter executes ("a.exe", "rep").
C12_EnterExecutes ==
  /\ [][KeyEnter
          => IF Len(results) > 0
             THEN /\ executed' =
                       <<[id |-> results[selectedIndex + 1], query |-> query]>>
                  /\ UNCHANGED <<selectedIndex, results, query>>
             ELSE executed' = <<>>]_vars
  /\ [][(/\ KeyEnter
          /\ results = <<"a.exe", "b.txt">>
          /\ query = "rep"
          /\ selectedIndex = PressUp(PressDown(0, 2, 1), 2, 1))
          => executed' = <<[id |-> "a.exe", query |-> "rep"]>>]_vars

\* C12 witness: Enter has just executed the first of the two rows found for
\* "rep"; the key press has raised both keyboard gates.
C12_Witness ==
  /\ executed = <<[id |-> "a.exe", query |-> "rep"]>>
  /\ results = <<"a.exe", "b.txt">>
  /\ selectedIndex = 0
  /\ isKeyboardSelection
  /\ isKeyboardScroll
  /\ lastIssued.q = "rep"

\* C13: when a search call fails and its token still equals latestSearchId,
\* results becomes empty and isLoading false; no new request is issued, no
\* timer is set and the text is left alone.
C13_FailureRecovery ==
  [][\A r \in inflight :
       (SearchReject(r) /\ r = latestSearchId)
         => /\ results' = <<>>
            /\ ~isLoading'
            /\ latestSearchId' = latestSearchId
            /\ inflight' = inflight \ {r}
            /\ UNCHANGED <<query, searchTimers, searchTimeout>>]_vars

\* C13 witness: the newest request, for "rep", has failed while the second
\* row of an earlier list was selected; the list is empty, the spinner is off
\* and nothing is outstanding.
C13_Witness ==
  /\ lastIssued.st = "err"
  /\ lastIssued.q = "rep"
  /\ results = <<>>
  /\ selectedIndex = 1
  /\ ~isLoading
  /\ inflight = {}
  /\ searchTimers = {}

\* C14: isLoading is true in every state in which the most recently issued
\* request is outstanding, and it goes from true to false only in a step
\* that completes a request whose token equals latestSearchId.
C14_LoadingTracksNewest ==
  /\ [](latestSearchId \in inflight => isLoading)
  /\ [][(isLoading /\ ~isLoading')
          => \E r \in inflight : Completes(r) /\ r = latestSearchId]_vars

\* C14 witness: the older of two requests has completed and the newer one is
\* the only one outstanding, with the spinner still on.
C14_Witness ==
  /\ latestSearchId = 2
  /\ inflight = {2}
  /\ lastIssued.dropped
  /\ isLoading
  /\ searchTimers = {}

\* C15 as claimed: scrollIntoView is requested only by a step in which an
\* ArrowDown or ArrowUp press changes selectedIndex, never by a mouse move or
\* an accepted response, whatever keys were pressed before; once it has been
\* requested isKeyboardScroll is false.
C15_ScrollOnlyOnArrow ==
  /\ [][scrolled' # <<>> => (KeyArrowDown \/ KeyArrowUp)]_vars
  /\ [](scrolled # <<>> => ~isKeyboardScroll)

\* C16 as claimed: while the debounce timer set by handleInput is pending,
\* isLoading is true, also when an earlier request completes meanwhile.  (The
\* timers that an Escape press has left behind are not counted here.)
C16_SpinnerDuringDebounce == (searchTimers # {} /\ ~superseded) => isLoading

\* C17 as claimed: cancelling the open panel once the load issued on open has
\* resolved leaves settings equal to the loaded snapshot and calls no
\* save_settings.
C17_CancelDiscards ==
  [][(CancelSettings /\ loads = 0 /\ snap # <<>>)
       => (settings' = snap[1] /\ saves' = saves)]_vars

\* a step in which some outstanding save_settings call is rejected
SaveRejected == \E i \in 1..Len(saves) : SaveReject(i)

\* a step in which some outstanding save_settings call resolves
SaveResolved == \E i \in 1..Len(saves) : SaveResolve(i)

\* C18: a failing save_settings leaves showSettings and the draft as they
\* are, issues no search and no further save_settings call; a failing
\* get_settings leaves settings as they are; a successful save_settings
\* closes the panel and issues exactly one search, for the current query,
\* under a fresh token.
C18_SettingsFailure ==
  /\ [][SaveRejected
          => /\ UNCHANGED <<showSettings, settings, latestSearchId, inflight>>
             /\ Len(saves') = Len(saves) - 1]_vars
  /\ [][LoadReject => UNCHANGED settings]_vars
  /\ [][SaveResolved
          => /\ ~showSettings'
             /\ latestSearchId' = latestSearchId + 1
             /\ latestSearchId' \notin inflight
             /\ inflight' = inflight \cup {latestSearchId'}
             /\ lastIssued'.q = query
             /\ query' = query]_vars

\* C18 witness: the only save_settings call made was rejected (the store
\* still holds a path no save writes); the panel is open and the draft holds
\* the coerced value of the cleared field.
C18_Witness ==
  /\ showSettings
  /\ saves = <<>>
  /\ loads = 0
  /\ stored.theme_bg_image = OtherBgPath
  /\ stored.max_results = 100
  /\ settings.max_results = 0
  /\ latestSearchId = 0

\* C19: every performSearch call passes the value query holds after the
\* step, and in every state with no debounce timer pending and no request
\* outstanding, once a search has been made, the newest request was for the
\* current text of query and results is its response, or the empty list if
\* it failed.
C19_QuiescentConsistency ==
  /\ [][IssuesSearch => lastIssued'.q = query']_vars
  /\ []((searchTimers = {} /\ inflight = {} /\ latestSearchId > 0)
          => /\ lastIssued.q = query
             /\ lastIssued.st \in {"ok", "err"}
             /\ lastIssued.st = "ok" => results = lastIssued.res
             /\ lastIssued.st = "err" => results = <<>>)

\* C19 witness: after three requests, the last one for the emptied text, an
\* older response arrived after the newest request was issued, and
\* everything has settled on a non-empty list for the empty text.
C19_Witness ==
  /\ latestSearchId = 3
  /\ searchTimers = {}
  /\ inflight = {}
  /\ query = ""
  /\ lastIssued.dropped
  /\ lastIssued.st = "ok"
  /\ results # <<>>

\* C20 as claimed: an Escape press that clears the text while a debounce
\* timer is pending issues one search, for "", and no search is issued from
\* then on until the next text change or settings save (not by the timer
\* that was pending either).
C20_EscapeSupersedes ==
  /\ [][(EscapeClear /\ searchTimers # {})
          => /\ latestSearchId' = latestSearchId + 1
             /\ lastIssued'.q = ""]_vars
  /\ [][(superseded /\ ~SaveResolved)
          => latestSearchId' = latestSearchId]_vars

\* C21 as claimed: when the last outstanding get_settings call completes
\* after a save_settings call made later has succeeded (the store no longer
\* holds what it held when get_settings was invoked), settings equal the
\* persisted record; and a get_settings response that arrives right after a
\* field was edited leaves the edited draft as it is.
C21_LoadSaveOrdering ==
  /\ [][\A i \in 1..Len(reads), saved \in StoredSettings :
          (/\ LoadReturns(i, saved)
           /\ reads[i] # stored
           /\ loads' = 0
           /\ saves = <<>>)
            => settings' = stored]_vars
  /\ [][(ev = "edit" /\ LoadResolve) => settings' = settings]_vars

\* a text change, an Escape press that searches, or a completed settings save
UserEvent ==
  \/ \E q \in Queries : HandleInput(q)
  \/ EscapeClear
  \/ SaveResolved

\* C22: if from some point on no text change, Escape-triggered search or
\* settings save occurs, then (the timer firing and the search calls
\* completing) from some point on isLoading is false for good; and once
\* nothing is pending and isLoading is false, only such an event makes it
\* true again.
C22_LoadingClears ==
  /\ (<>[][~UserEvent]_vars) => <>[](~isLoading)
  /\ [][(~isLoading /\ searchTimers = {} /\ inflight = {} /\ isLoading')
          => UserEvent]_vars

\* C22 witness: after a burst of typing and an Escape press, three requests
\* have completed, out of order, the last one with a failure; nothing is
\* pending and the spinner is off.
C22_Witness ==
  /\ ~isLoading
  /\ latestSearchId = MaxSearches
  /\ searchTimers = {}
  /\ inflight = {}
  /\ lastIssued.dropped
  /\ lastIssued.st = "err"
  /\ burst >= 2

====
